---- MODULE Spec2Model ----
(***************************************************************************)
(* Model of streamlit_app.py: the flower poster renderer                   *)
(* draw_flower_poster_3d, its two palettes, and the two ways it is called  *)
(* (the Streamlit script rerun, and a direct call with keyword arguments). *)
(*                                                                         *)
(* Numbers.  Every float of the program is a fixed-point integer in units  *)
(* of 1/10000: 0.15 is 1500, 1.0 is 10000.  Colours are RGB triples in     *)
(* the same unit.                                                          *)
(*                                                                         *)
(* Generators.  The program uses two process-wide generators, Python's     *)
(* `random` and numpy's `np.random`.  Each is modelled as a linear         *)
(* congruential generator over 0..PrngModulus-1; one output advances the   *)
(* state once and the output is the new state, read as the fraction        *)
(* state/PrngModulus of [0,1).                                             *)
(*                                                                         *)
(* Plotting.  ax.fill and ax.text belong to the plotting library.  The     *)
(* model records each call with the arguments the program passes, in the   *)
(* order the program issues them (fills, texts).  An outline, an array of  *)
(* 400 points, is recorded by the parameters that determine it and by its  *)
(* first point (theta = 0).                                                *)
(***************************************************************************)
EXTENDS Integers, Sequences, FiniteSets, TLC

VARIABLES
    pc,            \* where the program is
    caller,        \* "none", "ui" or "direct": who made the current call
    cfg,           \* the arguments of the current call
    pyState,       \* state of Python's random generator
    npState,       \* state of numpy's generator
    figCreated,    \* plt.subplots has run in the current call
    palette,       \* local palette
    layer,         \* index of the per-layer loop
    k,             \* index of the gradient loop
    cx, cy, rr, petal_factor, color,   \* locals of the current layer
    fills,         \* the ax.fill calls of the current call, in order
    texts,         \* the ax.text calls of the current call, in order
    draws,         \* the random draws of the current call, in order
    ref,           \* the first completed render: its arguments and output
    others         \* a render with another seed or palette ran after ref

vars == <<pc, caller, cfg, pyState, npState, figCreated, palette, layer, k,
          cx, cy, rr, petal_factor, color, fills, texts, draws, ref, others>>

locals == <<palette, layer, k, cx, cy, rr, petal_factor, color>>

PrngModulus == 64

\* States the two generators may be in when the process starts (both are
\* seeded from operating-system entropy at import).
EntropyStates == {0, 11}

Abs(n) == IF n < 0 THEN -n ELSE n

Max(a, b) == IF a >= b THEN a ELSE b

(***************************************************************************)
(* The generators                                                          *)
(***************************************************************************)
NextState(s) == (5 * s + 3) % PrngModulus

\* random.seed(int(seed)): Python seeds with the absolute value.
random_seed(seed) == Abs(seed) % PrngModulus

\* Mutant of np_random_seed: the numpy generator is left as the last call left it.
np_random_seed_stale(seed) == npState

\* np.random.seed(int(seed)): numpy initialises its state differently from
\* Python, so that the same seed starts a different stream.
np_random_seed(seed) == (3 * seed + 1) % PrngModulus

\* np.random.seed raises ValueError for a negative seed (and for one above
\* 2^32-1, which no caller of the model passes: the widget stops at 10^7).
NpSeedAccepts(seed) == seed >= 0

\* random.random(): a float of [0,1) from generator output u.
random_random(u) == (u * 10000) \div PrngModulus

\* random.uniform(a, b) and np.random.uniform(a, b): a + (b-a) * random().
uniform(a, b, u) == a + ((b - a) * u) \div PrngModulus

\* random.choice(seq): an index below len(seq) from generator output u (the
\* draw is counted as one output of the stream).
random_choice(seq, u) == seq[1 + (u * Len(seq)) \div PrngModulus]

\* One recorded random draw: the generator, the draw site, the layer it is
\* for (-1 for the palette) and the generator output.
Draw(gen, site, lay, u) == [gen |-> gen, site |-> site, layer |-> lay, value |-> u]

(***************************************************************************)
(* Palettes                                                                *)
(***************************************************************************)
\* Mutant of flower_palette: the first colour is mistyped.
flower_palette_mistyped ==
    << <<9500, 7500, 8500>>,
       <<7000, 8500, 7000>>,
       <<7000, 8000, 9500>>,
       <<8500, 7500, 9500>>,
       <<9800, 9300, 7500>> >>

flower_palette ==
    << <<9500, 7500, 8000>>,
       <<7000, 8500, 7000>>,
       <<7000, 8000, 9500>>,
       <<8500, 7500, 9500>>,
       <<9800, 9300, 7500>> >>

\* np.linspace(start, stop, num): num evenly spaced values, both ends included.
linspace(start, stop, num) ==
    [j \in 1..num |-> IF num = 1 THEN start
                      ELSE start + ((j - 1) * (stop - start)) \div (num - 1)]

\* colorsys._v
hls_v(m1, m2, hue) ==
    LET h == hue % 10000
    IN  IF 6 * h < 10000 THEN m1 + ((m2 - m1) * 6 * h) \div 10000
        ELSE IF 2 * h < 10000 THEN m2
        ELSE IF 3 * h < 20000 THEN m1 + ((m2 - m1) * 2 * (20000 - 3 * h)) \div 10000
        ELSE m1

\* colorsys.hls_to_rgb
hls_to_rgb(h, l, s) ==
    IF s = 0 THEN <<l, l, l>>
    ELSE LET m2 == IF 2 * l <= 10000 THEN (l * (10000 + s)) \div 10000
                   ELSE l + s - (l * s) \div 10000
             m1 == 2 * l - m2
         IN  <<hls_v(m1, m2, h + 3333), hls_v(m1, m2, h), hls_v(m1, m2, h - 3333)>>

DreamyHues(n) == linspace(7000, 8500, n)

\* The loop of dreamy_purple_palette from hue number j on: acc is the result
\* so far (cols, the generator state, the draws made).
RECURSIVE DreamyLoop(_, _, _)
DreamyLoop(hues, j, acc) ==
    IF j > Len(hues) THEN acc
    ELSE LET u1 == NextState(acc.state)
             u2 == NextState(u1)
             s  == uniform(2500, 4500, u1)
             l  == uniform(7200, 8600, u2)
         IN  DreamyLoop(hues, j + 1,
                 [cols  |-> Append(acc.cols, hls_to_rgb(hues[j], l, s)),
                  state |-> u2,
                  draws |-> acc.draws \o << Draw("np", "saturation", -1, u1),
                                            Draw("np", "lightness", -1, u2) >>])

\* Mutant of dreamy_purple_palette: the saturation and lightness are drawn with
\* random.uniform, from Python's generator, instead of np.random.uniform.
dreamy_purple_palette_random(n, npSt) ==
    LET p == DreamyLoop(DreamyHues(n), 1, [cols |-> <<>>, state |-> pyState, draws |-> <<>>])
    IN  [cols |-> p.cols, state |-> npSt,
         draws |-> [j \in DOMAIN p.draws |-> [p.draws[j] EXCEPT !.gen = "py"]]]

dreamy_purple_palette(n, npSt) ==
    DreamyLoop(DreamyHues(n), 1, [cols |-> <<>>, state |-> npSt, draws |-> <<>>])

\* Mutant of ResolvedPalette: the palette has n_layers colours, without the
\* floor of 8.
ResolvedPaletteNoFloor(name, n_layers, npSt) ==
    IF name = "fresh"
    THEN [cols |-> flower_palette, state |-> npSt, draws |-> <<>>]
    ELSE dreamy_purple_palette(n_layers, npSt)

\* Lines 70-73: any name other than "fresh" takes the else branch.
ResolvedPalette(name, n_layers, npSt) ==
    IF name = "fresh"
    THEN [cols |-> flower_palette, state |-> npSt, draws |-> <<>>]
    ELSE dreamy_purple_palette(Max(8, n_layers), npSt)

(***************************************************************************)
(* Shapes and draw calls                                                   *)
(***************************************************************************)
\* flower_shape: the outline of a rose curve, given by its parameters and
\* its first point, at theta = 0: (cx + r*(1 + petal_factor), cy).
flower_shape(center, r, petals, pf) ==
    [center |-> center, r |-> r, petals |-> petals, petal_factor |-> pf,
     start |-> <<center[1] + (r * (10000 + pf)) \div 10000, center[2]>>]

\* Lines 93-94: every point scaled towards (cx, cy).
ScaledShape(shape, ccx, ccy, scale) ==
    [shape EXCEPT !.start = <<ccx + ((shape.start[1] - ccx) * scale) \div 10000,
                              ccy + ((shape.start[2] - ccy) * scale) \div 10000>>]

\* Mutant of ShadowFill: the shadow is offset upwards (+y) instead of downwards.
ShadowFillUp(lay, ccx, ccy, r, petals, pf, shadow_ratio) ==
    LET shadow_offset == (r * shadow_ratio) \div 10000
    IN  [kind |-> "shadow", layer |-> lay, step |-> -1, scale |-> 10000,
         outline |-> flower_shape(<<ccx + shadow_offset, ccy + shadow_offset>>, r, petals, pf),
         color |-> <<0, 0, 0>>, alpha |-> 1500]

\* Lines 81-84: the shadow fill of a layer.
ShadowFill(lay, ccx, ccy, r, petals, pf, shadow_ratio) ==
    LET shadow_offset == (r * shadow_ratio) \div 10000
    IN  [kind |-> "shadow", layer |-> lay, step |-> -1, scale |-> 10000,
         outline |-> flower_shape(<<ccx + shadow_offset, ccy - shadow_offset>>, r, petals, pf),
         color |-> <<0, 0, 0>>, alpha |-> 1500]

GradientAlpha(alpha_start, alpha_step, step) == alpha_start + alpha_step * step

\* Mutant of GradientScale: the copies grow instead of shrinking.
GradientScaleGrowing(step) == 10000 + 500 * step

GradientScale(step) == 10000 - 500 * step

\* Lines 91-95: the body fill number step of a layer.
BodyFillCall(lay, step, ccx, ccy, r, petals, pf, col, alpha_start, alpha_step) ==
    [kind |-> "body", layer |-> lay, step |-> step, scale |-> GradientScale(step),
     outline |-> ScaledShape(flower_shape(<<ccx, ccy>>, r, petals, pf), ccx, ccy,
                             GradientScale(step)),
     color |-> col, alpha |-> GradientAlpha(alpha_start, alpha_step, step)]

Captions ==
    << [pos |-> <<500, 9500>>, text |-> "Flower Poster", fontsize |-> 18],
       [pos |-> <<500, 9100>>, text |-> "Fresh Colors * Petal Shapes * 3D Effect",
        fontsize |-> 11] >>

(***************************************************************************)
(* Arguments of a render call                                              *)
(***************************************************************************)
\* The keyword defaults of draw_flower_poster_3d.
Defaults ==
    [n_layers |-> 6, petals |-> 6,
     size_min |-> 1500, size_max |-> 3500,
     petal_factor_min |-> 2000, petal_factor_max |-> 4000,
     with_shadow |-> TRUE, shadow_ratio |-> 800,
     gradient_steps |-> 5, alpha_start |-> 2000, alpha_step |-> 1500,
     palette_name |-> "fresh", seed |-> 42]

\* Values of the sidebar widgets, chosen inside each widget's range.  The
\* petal count and the two range sliders stay at their initial values, which
\* are the keyword defaults (6, (0.15, 0.35), (0.20, 0.40)).
SeedValues == {1, 2}
LayerValues == {2, 9}
GradientStepValues == {3}
AlphaStartValues == {5000}
AlphaStepValues == {3500}
PaletteChoices == {"fresh (pink/green/blue/purple/cream)", "dreamy purple"}

\* Mutant of PaletteKey: the script passes the names fresh and dreamy.
PaletteKeyDreamy(choice) ==
    IF choice = "fresh (pink/green/blue/purple/cream)" THEN "fresh" ELSE "dreamy"

\* Line 117: palette_choice.startswith("fresh")
PaletteKey(choice) ==
    IF choice = "fresh (pink/green/blue/purple/cream)" THEN "fresh" ELSE "purple"

\* Integer keyword arguments a direct call overrides, with the values tried.
DirectIntArgs ==
    [n_layers |-> {0, 1}, size_min |-> {4000}, petal_factor_max |-> {1000},
     gradient_steps |-> {0, 1}, alpha_step |-> {0}, seed |-> {-1, 1}]

DirectPaletteNames == {"dreamy", "purple"}


NoRef == [set |-> FALSE, cfg |-> Defaults, fills |-> <<>>, texts |-> <<>>]

Init ==
    /\ pc = "idle"
    /\ caller = "none"
    /\ cfg = Defaults
    /\ pyState \in EntropyStates
    /\ npState \in EntropyStates
    /\ figCreated = FALSE
    /\ palette = <<>>
    /\ layer = 0
    /\ k = 0
    /\ cx = 0 /\ cy = 0 /\ rr = 0 /\ petal_factor = 0
    /\ color = <<0, 0, 0>>
    /\ fills = <<>>
    /\ texts = <<>>
    /\ draws = <<>>
    /\ ref = NoRef
    /\ others = FALSE

(***************************************************************************)
(* Lines 50-64: the call and the seeding of both generators.               *)
(***************************************************************************)
Enter(who, args) ==
    /\ pc \in {"idle", "done", "raised"}
    /\ caller' = who
    /\ cfg' = args
    /\ pyState' = random_seed(args.seed)
    /\ IF NpSeedAccepts(args.seed)
       THEN /\ npState' = np_random_seed(args.seed)
            /\ pc' = "canvas"
       ELSE /\ npState' = npState
            /\ pc' = "raised"
    /\ figCreated' = FALSE
    /\ palette' = <<>>
    /\ layer' = 0
    /\ k' = 0
    /\ cx' = 0 /\ cy' = 0 /\ rr' = 0 /\ petal_factor' = 0
    /\ color' = <<0, 0, 0>>
    /\ fills' = <<>>
    /\ texts' = <<>>
    /\ draws' = <<>>
    /\ UNCHANGED <<ref, others>>

\* Lines 110-138: one run of the script reads the widgets and calls the
\* renderer.  The range sliders return (low, high) with low <= high.
UIRerun ==
    \E seed \in SeedValues, n_layers \in LayerValues, with_shadow \in BOOLEAN,
       gradient_steps \in GradientStepValues, alpha_start \in AlphaStartValues,
       alpha_step \in AlphaStepValues, choice \in PaletteChoices :
        Enter("ui", [Defaults EXCEPT !.seed = seed, !.n_layers = n_layers,
                                     !.with_shadow = with_shadow,
                                     !.gradient_steps = gradient_steps,
                                     !.alpha_start = alpha_start,
                                     !.alpha_step = alpha_step,
                                     !.palette_name = PaletteKey(choice)])

\* A call of draw_flower_poster_3d that overrides one keyword argument.
DirectCall ==
    \/ \E arg \in DOMAIN DirectIntArgs : \E v \in DirectIntArgs[arg] :
           Enter("direct", [Defaults EXCEPT ![arg] = v])
    \/ \E name \in DirectPaletteNames :
           Enter("direct", [Defaults EXCEPT !.palette_name = name])
    \/ Enter("direct", [Defaults EXCEPT !.with_shadow = FALSE])
    \/ Enter("direct", Defaults)

\* Lines 66-68 (the background colour, parsed by hex_to_rgb01, is left out)
CreateCanvas ==
    /\ pc = "canvas"
    /\ figCreated' = TRUE
    /\ pc' = "palette"
    /\ UNCHANGED <<caller, cfg, pyState, npState, locals, fills, texts, draws, ref, others>>

\* Lines 70-73
ResolvePalette ==
    /\ pc = "palette"
    /\ LET p == ResolvedPalette(cfg.palette_name, cfg.n_layers, npState)
       IN  /\ palette' = p.cols
           /\ npState' = p.state
           /\ draws' = draws \o p.draws
    /\ pc' = "layer"
    /\ UNCHANGED <<caller, cfg, pyState, figCreated, layer, k, cx, cy, rr,
                   petal_factor, color, fills, texts, ref, others>>

\* Mutant of LayerSample: the radius is drawn before the centre.
LayerSampleRadiusFirst(st, lay, size_min, size_max, pf_min, pf_max) ==
    LET u1 == NextState(st)
        u2 == NextState(u1)
        u3 == NextState(u2)
        u4 == NextState(u3)
    IN  [cx |-> random_random(u2),
         cy |-> random_random(u3),
         rr |-> uniform(size_min, size_max, u1),
         petal_factor |-> uniform(pf_min, pf_max, u4),
         state |-> u4,
         draws |-> << Draw("py", "radius", lay, u1), Draw("py", "cx", lay, u2),
                      Draw("py", "cy", lay, u3),
                      Draw("py", "petal_factor", lay, u4) >>]

\* Lines 76-78: the four draws of a layer, in program order, from generator
\* state st.
LayerSample(st, lay, size_min, size_max, pf_min, pf_max) ==
    LET u1 == NextState(st)
        u2 == NextState(u1)
        u3 == NextState(u2)
        u4 == NextState(u3)
    IN  [cx |-> random_random(u1),
         cy |-> random_random(u2),
         rr |-> uniform(size_min, size_max, u3),
         petal_factor |-> uniform(pf_min, pf_max, u4),
         state |-> u4,
         draws |-> << Draw("py", "cx", lay, u1), Draw("py", "cy", lay, u2),
                      Draw("py", "radius", lay, u3),
                      Draw("py", "petal_factor", lay, u4) >>]

\* Lines 75-78: the loop test and the four draws of a layer.
LayerDraws ==
    /\ pc = "layer"
    /\ layer < cfg.n_layers
    /\ LET d == LayerSample(pyState, layer, cfg.size_min, cfg.size_max,
                            cfg.petal_factor_min, cfg.petal_factor_max)
       IN  /\ cx' = d.cx
           /\ cy' = d.cy
           /\ rr' = d.rr
           /\ petal_factor' = d.petal_factor
           /\ pyState' = d.state
           /\ draws' = draws \o d.draws
    /\ pc' = "shadow"
    /\ UNCHANGED <<caller, cfg, npState, figCreated, palette, layer, k, color,
                   fills, texts, ref, others>>

\* Lines 80-84
DrawShadow ==
    /\ pc = "shadow"
    /\ cfg.with_shadow
    /\ fills' = Append(fills, ShadowFill(layer, cx, cy, rr, cfg.petals, petal_factor,
                                         cfg.shadow_ratio))
    /\ pc' = "color"
    /\ UNCHANGED <<caller, cfg, pyState, npState, figCreated, locals, texts, draws,
                   ref, others>>

SkipShadow ==
    /\ pc = "shadow"
    /\ ~cfg.with_shadow
    /\ pc' = "color"
    /\ UNCHANGED <<caller, cfg, pyState, npState, figCreated, locals, fills, texts,
                   draws, ref, others>>

\* Lines 86-87
ChooseColor ==
    /\ pc = "color"
    /\ LET u == NextState(pyState)
       IN  /\ color' = random_choice(palette, u)
           /\ pyState' = u
           /\ draws' = Append(draws, Draw("py", "color", layer, u))
    /\ k' = 0
    /\ pc' = "body"
    /\ UNCHANGED <<caller, cfg, npState, figCreated, palette, layer, cx, cy, rr,
                   petal_factor, fills, texts, ref, others>>

\* Lines 90-95: one pass of the gradient loop.
BodyFill ==
    /\ pc = "body"
    /\ k < cfg.gradient_steps
    /\ fills' = Append(fills, BodyFillCall(layer, k, cx, cy, rr, cfg.petals, petal_factor,
                                           color, cfg.alpha_start, cfg.alpha_step))
    /\ k' = k + 1
    /\ UNCHANGED <<pc, caller, cfg, pyState, npState, figCreated, palette, layer,
                   cx, cy, rr, petal_factor, color, texts, draws, ref, others>>

\* The gradient loop ends; the layer loop goes on.
EndLayer ==
    /\ pc = "body"
    /\ k >= cfg.gradient_steps
    /\ layer' = layer + 1
    /\ pc' = "layer"
    /\ UNCHANGED <<caller, cfg, pyState, npState, figCreated, palette, k,
                   cx, cy, rr, petal_factor, color, fills, texts, draws, ref, others>>

\* Lines 97-98: the layer loop has ended.
DrawCaptions ==
    /\ pc = "layer"
    /\ layer >= cfg.n_layers
    /\ texts' = texts \o Captions
    /\ pc' = "finish"
    /\ UNCHANGED <<caller, cfg, pyState, npState, figCreated, locals, fills, draws,
                   ref, others>>

\* Lines 100-103
Return ==
    /\ pc = "finish"
    /\ pc' = "done"
    /\ IF ref.set
       THEN /\ ref' = ref
            /\ others' = (others \/ cfg.seed # ref.cfg.seed
                                 \/ cfg.palette_name # ref.cfg.palette_name)
       ELSE /\ ref' = [set |-> TRUE, cfg |-> cfg, fills |-> fills, texts |-> texts]
            /\ others' = others
    /\ UNCHANGED <<caller, cfg, pyState, npState, figCreated, locals, fills, texts, draws>>

Next ==
    \/ UIRerun
    \/ DirectCall
    \/ CreateCanvas
    \/ ResolvePalette
    \/ LayerDraws
    \/ DrawShadow
    \/ SkipShadow
    \/ ChooseColor
    \/ BodyFill
    \/ EndLayer
    \/ DrawCaptions
    \/ Return

Spec == Init /\ [][Next]_vars

(***************************************************************************)
(* Properties                                                              *)
(***************************************************************************)
FillIdx == 1..Len(fills)

ShadowIdx(L) == {j \in FillIdx : fills[j].kind = "shadow" /\ fills[j].layer = L}

BodyIdx(L) == {j \in FillIdx : fills[j].kind = "body" /\ fills[j].layer = L}

\* The call is inside or past the render body.
Rendering == pc \in {"canvas", "palette", "layer", "shadow", "color", "body", "finish", "done"}

\* The palette has been resolved in the current call.
PaletteResolved == pc \in {"layer", "shadow", "color", "body", "finish", "done"}

\* Layers whose shadow step has been passed, and layers whose gradient loop
\* has ended.
LayersPastShadow == {L \in 0..layer : L < layer \/ pc \in {"color", "body"}}

LayersEnded == {L \in 0..layer : L < layer}

RECURSIVE Iterate(_, _)
Iterate(s, n) == IF n = 0 THEN s ELSE Iterate(NextState(s), n - 1)

\* How many of the draws before position j used the generator of draw j.
EarlierSameGen(j) == Cardinality({i \in 1..(j - 1) : draws[i].gen = draws[j].gen})

\* C1: a completed render with the same arguments as the first completed
\* render issued the same fill calls and the same text calls, whatever was
\* rendered in between.
C1_Determinism ==
    (pc = "done" /\ ref.set /\ cfg = ref.cfg) => (fills = ref.fills /\ texts = ref.texts)

C1_Witness ==
    /\ pc = "done" /\ ref.set /\ cfg = ref.cfg /\ others
    /\ cfg.palette_name # "fresh"
    /\ Len(fills) > 0

InvalidConfig(c) ==
    \/ c.size_min > c.size_max
    \/ c.petal_factor_min > c.petal_factor_max
    \/ c.n_layers < 1
    \/ c.gradient_steps < 1
    \/ c.seed < 0

\* C2: a call with an invalid configuration fails before any rendering work:
\* no canvas, no fill, no text.
C2_InvalidConfigRejected ==
    (caller # "none" /\ InvalidConfig(cfg)) =>
        (pc = "raised" /\ ~figCreated /\ fills = <<>> /\ texts = <<>>)

\* C3: with with_shadow, every layer past its shadow step has exactly one
\* shadow fill, black at alpha 0.15, offset by radius*shadow_ratio in +x and
\* -y from the layer's centre, issued before every body fill of the layer
\* and after every fill of the earlier layers; without with_shadow there is
\* no shadow fill.
C3_ShadowOrder ==
    /\ \A j \in FillIdx : fills[j].kind = "shadow" =>
           (cfg.with_shadow /\ fills[j].layer \in LayersPastShadow)
    /\ cfg.with_shadow =>
           \A L \in LayersPastShadow :
               /\ Cardinality(ShadowIdx(L)) = 1
               /\ \A j \in ShadowIdx(L) :
                      /\ fills[j].color = <<0, 0, 0>>
                      /\ fills[j].alpha = 1500
                      /\ \A b \in BodyIdx(L) :
                             /\ j < b
                             /\ fills[j].outline.r = fills[b].outline.r
                             /\ LET off == (fills[b].outline.r * cfg.shadow_ratio) \div 10000
                                IN  fills[j].outline.center =
                                        <<fills[b].outline.center[1] + off,
                                          fills[b].outline.center[2] - off>>
                      /\ \A e \in FillIdx : fills[e].layer < L => e < j

C3_Witness ==
    /\ pc = "done" /\ cfg.with_shadow /\ cfg.n_layers >= 2
    /\ BodyIdx(1) # {} /\ ShadowIdx(1) # {}
    /\ \E j \in ShadowIdx(0) : fills[j].outline.center[1] # fills[j + 1].outline.center[1]

DocumentedFresh ==
    { <<9500, 7500, 8000>>, <<7000, 8500, 7000>>, <<7000, 8000, 9500>>,
      <<8500, 7500, 9500>>, <<9800, 9300, 7500>> }

\* C4 as stated: with the fresh palette every colour passed to a fill is one
\* of the five documented triples.
C4_EveryFillFresh ==
    cfg.palette_name = "fresh" => \A j \in FillIdx : fills[j].color \in DocumentedFresh

\* C4 as amended: with the fresh palette every colour passed to a body fill
\* is one of the five documented triples, and every shadow fill is black.
C4_BodyFillsFresh ==
    cfg.palette_name = "fresh" =>
        \A j \in FillIdx :
            /\ fills[j].kind = "body" => fills[j].color \in DocumentedFresh
            /\ fills[j].kind = "shadow" => fills[j].color = <<0, 0, 0>>

C4_Witness ==
    /\ pc = "done" /\ cfg.palette_name = "fresh" /\ cfg.with_shadow
    /\ \E j \in FillIdx : fills[j].kind = "shadow"
    /\ Cardinality({fills[j].color : j \in {i \in FillIdx : fills[i].kind = "body"}}) >= 3

\* C5: every fill call of a render started by the control panel receives an
\* alpha within [0, 1].
C5_AlphaRange ==
    caller = "ui" => \A j \in FillIdx : fills[j].alpha >= 0 /\ fills[j].alpha <= 10000

\* C6: a palette that is not fresh has max(8, n_layers) colours; colour i is
\* the HLS colour of hue i of that many evenly spaced hues from 0.70 to 0.85,
\* with the saturation drawn from [0.25, 0.45] and the lightness from
\* [0.72, 0.86]; every body fill colour is one of the palette.
C6_DreamyPalette ==
    (PaletteResolved /\ cfg.palette_name # "fresh") =>
        LET n == IF cfg.n_layers > 8 THEN cfg.n_layers ELSE 8
        IN  /\ Len(palette) = n
            /\ Len(draws) >= 2 * n
            /\ \A i \in 1..Len(palette) :
                   LET h == 7000 + ((i - 1) * 1500) \div (n - 1)
                       s == uniform(2500, 4500, draws[2 * i - 1].value)
                       l == uniform(7200, 8600, draws[2 * i].value)
                   IN  /\ h >= 7000 /\ h <= 8500
                       /\ (i = 1 => h = 7000) /\ (i = n => h = 8500)
                       /\ draws[2 * i - 1].site = "saturation"
                       /\ draws[2 * i].site = "lightness"
                       /\ s >= 2500 /\ s <= 4500
                       /\ l >= 7200 /\ l <= 8600
                       /\ palette[i] = hls_to_rgb(h, l, s)
            /\ \A j \in FillIdx : fills[j].kind = "body" =>
                   \E i \in 1..Len(palette) : fills[j].color = palette[i]

C6_Witness ==
    /\ pc = "done" /\ cfg.palette_name # "fresh" /\ cfg.n_layers > 8
    /\ Len(palette) = cfg.n_layers
    /\ \E j \in FillIdx : fills[j].kind = "body" /\ fills[j].color = palette[Len(palette)]

\* C7: the body fills of a layer are the steps 0, 1, ... in this order, all
\* gradient_steps of them once the layer has ended; step s has alpha
\* alpha_start + alpha_step*s and scale 1 - 0.05*s, so that the first has
\* alpha_start and scale 1, each next scale is strictly smaller and, for
\* alpha_step > 0, each next alpha strictly greater.
C7_GradientMonotone ==
    \A L \in 0..layer :
        /\ \A b \in BodyIdx(L) :
               /\ fills[b].step = Cardinality({a \in BodyIdx(L) : a < b})
               /\ fills[b].alpha = cfg.alpha_start + cfg.alpha_step * fills[b].step
               /\ fills[b].scale = 10000 - 500 * fills[b].step
               /\ fills[b].step = 0 =>
                      (fills[b].alpha = cfg.alpha_start /\ fills[b].scale = 10000)
               /\ \A a \in BodyIdx(L) : a < b =>
                      /\ fills[a].scale > fills[b].scale
                      /\ cfg.alpha_step > 0 => fills[a].alpha < fills[b].alpha
                      /\ Abs(fills[a].outline.start[1] - fills[a].outline.center[1])
                             >= Abs(fills[b].outline.start[1] - fills[b].outline.center[1])
        /\ L \in LayersEnded =>
               Cardinality(BodyIdx(L)) = Max(0, cfg.gradient_steps)

C7_Witness ==
    /\ pc = "done" /\ cfg.gradient_steps >= 3 /\ cfg.alpha_step > 0
    /\ \E b \in BodyIdx(1) : fills[b].step = 2 /\ fills[b].alpha > 10000

\* C8 as stated: every random draw of a call is taken from one and the same
\* generator.
C8_SingleStream ==
    \A i, j \in 1..Len(draws) : draws[i].gen = draws[j].gen

\* C8 as amended: both generators are seeded with the seed at the start of
\* the call; every palette draw is the next output of numpy's generator and
\* every per-layer draw the next output of Python's generator, so that the
\* palette's draws do not advance the stream the per-layer draws read.
C8_TwoStreams ==
    Rendering =>
        \A j \in 1..Len(draws) :
            /\ draws[j].layer = -1 =>
                   /\ draws[j].gen = "np"
                   /\ draws[j].value = Iterate(np_random_seed(cfg.seed), EarlierSameGen(j) + 1)
            /\ draws[j].layer >= 0 =>
                   /\ draws[j].gen = "py"
                   /\ draws[j].value = Iterate(random_seed(cfg.seed), EarlierSameGen(j) + 1)
                   /\ EarlierSameGen(j) = Cardinality({i \in 1..(j - 1) : draws[i].layer >= 0})

C8_Witness ==
    /\ pc = "done" /\ cfg.palette_name # "fresh" /\ cfg.n_layers >= 2
    /\ \E i, j \in 1..Len(draws) : draws[i].gen = "np" /\ draws[j].gen = "py"

PerLayerSites == <<"cx", "cy", "radius", "petal_factor", "color">>

PaletteDrawCount ==
    IF cfg.palette_name = "fresh" THEN 0
    ELSE 2 * (IF cfg.n_layers > 8 THEN cfg.n_layers ELSE 8)

\* C9: the draws of a call are the palette's draws, all of them, and then for
\* each layer in order the draws for cx, cy, radius, petal factor and colour
\* and no other; the centre the layer uses is the one drawn; with the fresh
\* palette the first two outputs after seeding are the first layer's cx, cy.
C9_DrawOrder ==
    Rendering =>
        LET P == PaletteDrawCount
        IN  /\ PaletteResolved => Len(draws) >= P
            /\ ~PaletteResolved => draws = <<>>
            /\ \A j \in 1..Len(draws) :
                   IF j <= P
                   THEN /\ draws[j].layer = -1
                        /\ draws[j].site = (IF j % 2 = 1 THEN "saturation" ELSE "lightness")
                   ELSE /\ draws[j].layer = (j - P - 1) \div 5
                        /\ draws[j].site = PerLayerSites[((j - P - 1) % 5) + 1]
            /\ pc \in {"shadow", "color", "body"} =>
                   /\ Len(draws) >= P + 5 * layer + 4
                   /\ cx = random_random(draws[P + 5 * layer + 1].value)
                   /\ cy = random_random(draws[P + 5 * layer + 2].value)
                   /\ rr = uniform(cfg.size_min, cfg.size_max, draws[P + 5 * layer + 3].value)
            /\ (cfg.palette_name = "fresh" /\ Len(draws) >= 2) =>
                   /\ draws[1].value = NextState(random_seed(cfg.seed))
                   /\ draws[2].value = NextState(NextState(random_seed(cfg.seed)))
                   /\ draws[1].site = "cx" /\ draws[2].site = "cy"

C9_Witness ==
    /\ pc = "done" /\ cfg.palette_name # "fresh" /\ cfg.n_layers >= 2
    /\ Len(draws) = PaletteDrawCount + 5 * cfg.n_layers
    /\ draws[PaletteDrawCount + 6].site = "cx"

TypeOK == pc \in {"idle", "canvas", "palette", "layer", "shadow", "color", "body",
                  "finish", "done", "raised"}
====
